---- MODULE Spec2Model ----
(***************************************************************************)
(* Brute-force semantic search of Embedding01/04_semantic_search.py:       *)
(* load_data reads the CSV written by 03_embed_and_store.py and stacks the *)
(* embedding column into a matrix, normalize_matrix L2-normalises the rows *)
(* and semantic_search ranks the rows against a query vector.              *)
(*                                                                         *)
(* Numbers.  The program computes in float32.  The model keeps the shape   *)
(* of that arithmetic (every operation rounds its result to the nearest    *)
(* representable value) on a fixed-point grid: the integer x stands for    *)
(* the number x / SCALE.  1.0 is SCALE and -1.0 is -SCALE.                 *)
(***************************************************************************)
EXTENDS Integers, Sequences, FiniteSets, TLC

\* ---- bounds of the model -------------------------------------------------
SCALE == 1000
MaxN == 3
MaxK == 3
Tol == 3
Fine == 10
MaxCalls == 3
MaxThreads == 2
MaxTexts == 18
MaxTabs == 2
MaxChats == 3
MaxTurns == 3
MaxRounds == 4

MaxExprLen == 3

MaxToolCalls == 2

MaxReviews == 2

\* ---- program constants ---------------------------------------------------
DEFAULT_TOP_K == 5
BATCH_SIZE == 16
WINDOW_SIZE == 2

SAMPLE_SIZE == 1000

MAX_CHARS == 2000

\* Python's None, where the other values are integers (score_filter)
None == -1

\* no exception
NoError == "none"

\* the float that is not a number: what 0 / 0 gives
NaN == -999999999

\* ---- fixed-point arithmetic (rounding to nearest, as float32 does) -------
Min(a, b) == IF a < b THEN a ELSE b

\* a / b rounded to the nearest grid value, b > 0, symmetric in the sign of a
RoundDiv(a, b) ==
    IF a >= 0 THEN (2 * a + b) \div (2 * b)
    ELSE -((2 * (-a) + b) \div (2 * b))

RECURSIVE FloorSqrtIn(_, _, _)
FloorSqrtIn(x, lo, hi) ==
    IF lo >= hi THEN lo
    ELSE LET mid == (lo + hi + 1) \div 2
         IN  IF mid * mid <= x THEN FloorSqrtIn(x, mid, hi)
             ELSE FloorSqrtIn(x, lo, mid - 1)

\* sqrt(x) rounded to the nearest integer
RoundSqrt(x) ==
    LET n == FloorSqrtIn(x, 0, Min(x, 46340))
    IN  IF x - n * n > n THEN n + 1 ELSE n

RECURSIVE SumProd(_, _, _)
SumProd(a, b, i) ==
    IF i = 0 THEN 0 ELSE a[i] * b[i] + SumProd(a, b, i - 1)

\* np.linalg.norm of one row
L2Norm(v) == RoundSqrt(SumProd(v, v, Len(v)))

\* v / norm without the 1e-10: the zero vector gives 0 / 0
DivideByNorm_no_epsilon(v, n) ==
    [i \in 1..Len(v) |-> IF n = 0 THEN NaN ELSE RoundDiv(v[i] * SCALE, n)]

\* v / (norm + 1e-10): 1e-10 is far below the resolution of a nonzero norm,
\* and a zero norm belongs to the zero vector only, where 0 / 1e-10 = 0.
DivideByNorm(v, n) ==
    [i \in 1..Len(v) |-> IF n = 0 THEN 0 ELSE RoundDiv(v[i] * SCALE, n)]

HasNaN(v) == \E i \in 1..Len(v) : v[i] = NaN

\* the dot product of two rows; a NaN component makes the product NaN
Dot(a, b) ==
    IF HasNaN(a) \/ HasNaN(b) THEN NaN
    ELSE RoundDiv(SumProd(a, b, Len(a)), SCALE)

\* ---- the embedding column as text ------------------------------------------
\* The vectors of the embedding service are float64 values: the integer y
\* stands for y / (SCALE * Fine). json.dumps writes a vector as the list of
\* the decimal numerals of its values, json.loads reads the numerals back and
\* astype(np.float32) rounds every value to the float32 grid.
DigitChars == <<"0", "1", "2", "3", "4", "5", "6", "7", "8", "9">>

RECURSIVE Digits(_)
Digits(n) ==
    IF n < 10 THEN <<DigitChars[n + 1]>>
    ELSE Append(Digits(n \div 10), DigitChars[(n % 10) + 1])

FormatNumber(y) == IF y < 0 THEN <<"-">> \o Digits(-y) ELSE Digits(y)

json_dumps(embedding) == [i \in 1..Len(embedding) |-> FormatNumber(embedding[i])]

DigitValue(c) == CHOOSE d \in 0..9 : DigitChars[d + 1] = c

RECURSIVE ParseDigits(_)
ParseDigits(cs) ==
    IF cs = <<>> THEN 0
    ELSE 10 * ParseDigits(SubSeq(cs, 1, Len(cs) - 1)) + DigitValue(cs[Len(cs)])

ParseNumber(cs) == IF cs[1] = "-" THEN -ParseDigits(Tail(cs)) ELSE ParseDigits(cs)

json_loads(text) == [i \in 1..Len(text) |-> ParseNumber(text[i])]

astype_float32(v) == [i \in 1..Len(v) |-> RoundDiv(v[i], Fine)]

\* the float64 values of a vector that lies on the float32 grid
Float64(v) == [i \in 1..Len(v) |-> v[i] * Fine]

\* a row of the CSV 03_embed_and_store.py writes: the columns of the review
\* and the JSON text of its vector
CsvRow(Score, v) == [Score |-> Score, embedding |-> json_dumps(Float64(v))]

\* ---- inputs ----------------------------------------------------------------
VecA == <<SCALE, 0>>
VecA2 == <<2 * SCALE, 0>>
VecB == <<(9 * SCALE) \div 10, SCALE \div 10>>
VecC == <<0, SCALE>>
VecZ == <<0, 0>>
VecE == <<SCALE, 5 * SCALE>>
VecN == <<-SCALE, 0>>
VecW == <<SCALE, 0, 0>>

\* rows a CSV file may hold: a Score (1-5 stars) and an embedding
CsvRows ==
    { CsvRow(5, VecA),
      CsvRow(1, VecA2),
      CsvRow(5, VecB),
      CsvRow(1, VecC),
      CsvRow(5, VecZ),
      CsvRow(1, VecE),
      CsvRow(5, VecN),
      CsvRow(1, VecW) }

CsvFiles == UNION { [1..n -> CsvRows] : n \in 0..MaxN }

\* what INPUT_PATH may hold: no file, a CSV without the embedding column, or
\* a CSV of up to MaxN rows; the content of row i is modelled by its number i
NoFile == [exists |-> FALSE, has_embedding |-> FALSE, rows |-> <<>>]
NoEmbeddingColumn == [exists |-> TRUE, has_embedding |-> FALSE, rows |-> <<>>]
CsvInputs ==
    { [exists |-> TRUE, has_embedding |-> TRUE, rows |-> rows] : rows \in CsvFiles }
        \cup {NoFile, NoEmbeddingColumn}

\* unit vector of v, as an embedding service that normalises its output
\* returns it
Unit(v) ==
    LET n == L2Norm(v)
    IN  [i \in 1..Len(v) |-> IF n = 0 THEN 0 ELSE RoundDiv(v[i] * SCALE, n)]

\* vectors the embedding service may return for a query text
QueryVecs == {VecA2, VecW} \cup {Unit(v) : v \in {VecA, VecB, VecZ, VecE, VecN}}

\* values of top_k and of score_filter a caller may pass
TopKs == (1..MaxK) \cup {DEFAULT_TOP_K}
ScoreFilters == {None, 1, 5}

\* np.argsort(kind="quicksort") is not a stable sort: the order in which it
\* emits equal keys belongs to the numpy build (insertion sort on short
\* arrays keeps them in ascending position, the vectorised sorts do not).
\* A build is modelled by the order it gives equal keys.
TieOrders == {"ascending", "descending"}

\* the value of call before the first call of semantic_search
NoCall == [query_vec |-> <<>>, top_k |-> 0, score_filter |-> None]

\* the callers of semantic_search that run at the same time, and one of them
\* before its call: no arguments, no locals
Threads == 1..MaxThreads

NotCalled ==
    [at |-> "idle", args |-> NoCall, query_norm |-> <<>>, scores |-> <<>>,
     top_indices |-> <<>>, results |-> <<>>]

VARIABLES
    csv,           \* the file at INPUT_PATH
    tie_order,      \* the numpy build's order of equal keys in argsort
    pc,            \* main: "start", "loaded", "ready", "print", "exit", "error"
    err,           \* the uncaught exception that ended main, or NoError
    df,            \* main's df
    embed_matrix,  \* main's embed_matrix
    norm_matrix,   \* main's norm_matrix
    call,          \* arguments of the last semantic_search call, or NoCall
    results,       \* the DataFrame the last semantic_search call returned
    log,           \* the searches that returned so far: arguments and result
    threads,       \* per concurrent semantic_search call: position and locals
    \* 03_embed_and_store.py
    texts,          \* main's texts, the content column of INPUT_PATH
    batch_i,        \* main's loop variable i, the start of the next batch
    all_embeddings, \* main's all_embeddings
    exchanges,      \* the requests sent so far, each with the response it got
    store_pc,       \* main: "loop", "assign", "save", "print", "done", or the
                    \* exception that ended it
    out_csv,        \* the file at OUTPUT_PATH
    \* phone_review_agent.py
    session_id_value, \* the value given to gr.State when the app is built
    tab_state,      \* per browser tab: what its session_id State holds
    session_store,  \* session_store
    chatbot,        \* per tab: the value of the chatbot component
    injected,       \* per tab: the history its last agent.invoke was given
    chats_made,     \* number of chat calls so far
    \* demo03_multi_turn.py
    messages,       \* messages
    chat_pc,        \* chat: "idle", "waiting" for the API, "failed"
    user_input,     \* chat's user_input while it waits
    request,        \* the messages of the last request to the API
    turns,          \* the calls of chat that returned: input and reply
    \* demo05_memory.py, sliding window
    window_history, \* window_history
    win_pc,         \* chat_with_window: "idle", "waiting" for the model, "failed"
    win_input,      \* chat_with_window's user_input while it waits
    win_request,    \* the messages of the last model.invoke
    rounds,         \* the calls that returned: input and reply
    \* demo05_function_call.py
    tool_messages,  \* messages
    response_message, \* response_message, the message of the first response
    tool_i,         \* the number of tool calls the dispatch loop has done
    tool_results,   \* tool_results
    second_request, \* the messages of the second request
    tools_pc,       \* "first", "dispatch", "second", "done", or the exception
                    \* that ended the script
    \* calculate of demo05_function_call.py and of demo07_react_agent.py
    calc_file,      \* the file whose calculate is called
    expression,     \* calculate's expression
    evaluated,      \* the arguments eval was called with during the call
    calc_return,    \* what the call returned
    calc_pc,        \* "call", "returned", or "raised"
    \* 02_prepare_data.py
    reviews,        \* the rows of the file at INPUT_PATH
    prep_df,        \* main's df
    prep_out,       \* the file at OUTPUT_PATH
    prep_pc         \* main: the next step, "done", or the exception that
                    \* ended it

search_vars == <<csv, tie_order, pc, err, df, embed_matrix, norm_matrix, call, results>>

store_vars == <<texts, batch_i, all_embeddings, exchanges, store_pc, out_csv>>

agent_vars == <<session_id_value, tab_state, session_store, chatbot, injected, chats_made>>

chat_vars == <<messages, chat_pc, user_input, request, turns>>

window_vars == <<window_history, win_pc, win_input, win_request, rounds>>

tools_vars == <<tool_messages, response_message, tool_i, tool_results, second_request, tools_pc>>

calc_vars == <<calc_file, expression, evaluated, calc_return, calc_pc>>

prep_vars == <<reviews, prep_df, prep_out, prep_pc>>

late_vars == <<tools_vars, calc_vars, prep_vars>>

rest_vars == <<store_vars, agent_vars, chat_vars, window_vars, late_vars>>

vars == <<search_vars, log, threads, rest_vars>>

\* the browser tabs and the session ids uuid4 may give
Tabs == 1..MaxTabs

Uuids == {"uuid-a", "uuid-b", "uuid-c"}

NoSession == [exists |-> FALSE, messages |-> <<>>]

\* a program that is not running: its variables at rest
SearchOff ==
    /\ csv = NoFile
    /\ tie_order = "ascending"
    /\ pc = "start"
    /\ err = NoError
    /\ df = <<>>
    /\ embed_matrix = <<>>
    /\ norm_matrix = <<>>
    /\ call = NoCall
    /\ results = <<>>
    /\ log = <<>>
    /\ threads = [t \in Threads |-> NotCalled]

StoreOff ==
    /\ texts = <<>>
    /\ batch_i = 0
    /\ all_embeddings = <<>>
    /\ exchanges = <<>>
    /\ store_pc = "off"
    /\ out_csv = NoFile

AgentOff ==
    /\ session_id_value = ""
    /\ tab_state = [t \in Tabs |-> ""]
    /\ session_store = [id \in Uuids |-> NoSession]
    /\ chatbot = [t \in Tabs |-> <<>>]
    /\ injected = [t \in Tabs |-> <<>>]
    /\ chats_made = 0

ChatOff ==
    /\ messages = <<>>
    /\ chat_pc = "off"
    /\ user_input = ""
    /\ request = <<>>
    /\ turns = <<>>

WindowOff ==
    /\ window_history = <<>>
    /\ win_pc = "off"
    /\ win_input = ""
    /\ win_request = <<>>
    /\ rounds = <<>>

ToolsOff ==
    /\ tool_messages = <<>>
    /\ response_message = <<>>
    /\ tool_i = 0
    /\ tool_results = <<>>
    /\ second_request = <<>>
    /\ tools_pc = "off"

CalcOff ==
    /\ calc_file = ""
    /\ expression = <<>>
    /\ evaluated = <<>>
    /\ calc_return = ""
    /\ calc_pc = "off"

PrepOff ==
    /\ reviews = [has_columns |-> FALSE, rows |-> <<>>]
    /\ prep_df = <<>>
    /\ prep_out = NoFile
    /\ prep_pc = "off"

LateOff == ToolsOff /\ CalcOff /\ PrepOff

Init ==
    /\ csv \in CsvInputs
    /\ tie_order \in TieOrders
    /\ pc = "start"
    /\ err = NoError
    /\ df = <<>>
    /\ embed_matrix = <<>>
    /\ norm_matrix = <<>>
    /\ call = NoCall
    /\ results = <<>>
    /\ log = <<>>
    /\ threads = [t \in Threads |-> NotCalled]
    /\ StoreOff /\ AgentOff /\ ChatOff /\ WindowOff /\ LateOff

\* ---- load_data -------------------------------------------------------------
\* pd.read_csv: the rows in file order
ReadCsv(rows) ==
    [i \in 1..Len(rows) |->
        [Score |-> rows[i].Score, content |-> i, embedding |-> rows[i].embedding]]

\* np.stack without its check of the shapes
StackRaises_empty_only(vectors) == Len(vectors) = 0

\* np.stack raises ValueError on an empty list and on arrays of unequal shape
StackRaises(vectors) ==
    \/ Len(vectors) = 0
    \/ \E i, j \in 1..Len(vectors) : Len(vectors[i]) # Len(vectors[j])

\* load_data's outcome: the exception it raises, or the pair it returns
load_data(file) ==
    IF ~file.exists THEN [raises |-> "FileNotFoundError"]
    ELSE IF ~file.has_embedding THEN [raises |-> "ValueError"]
    ELSE LET frame == ReadCsv(file.rows)
             vectors == [i \in 1..Len(frame) |-> json_loads(frame[i].embedding)]
         IN  IF StackRaises(vectors) THEN [raises |-> "ValueError"]
             ELSE [raises |-> NoError, df |-> frame,
                   embed_matrix |-> [i \in 1..Len(vectors) |->
                                        astype_float32(vectors[i])]]

\* main, lines 193-198: load the data; a missing file ends the program with
\* exit code 1, any other exception propagates
LoadData ==
    /\ pc = "start"
    /\ \E r \in {load_data(csv)} :
           IF r.raises = NoError
           THEN /\ df' = r.df
                /\ embed_matrix' = r.embed_matrix
                /\ pc' = "loaded"
                /\ err' = err
           ELSE /\ UNCHANGED <<df, embed_matrix>>
                /\ pc' = IF r.raises = "FileNotFoundError" THEN "exit" ELSE "error"
                /\ err' = IF r.raises = "FileNotFoundError" THEN NoError ELSE r.raises
    /\ UNCHANGED <<csv, tie_order, norm_matrix, call, results>>

\* normalize_matrix returning the matrix as it is
normalize_matrix_raw(matrix) == matrix

\* ---- normalize_matrix ------------------------------------------------------
normalize_matrix(matrix) ==
    [i \in 1..Len(matrix) |-> DivideByNorm(matrix[i], L2Norm(matrix[i]))]

\* the division written in place, matrix /= norms + 1e-10
RawAfterNormalize_in_place(matrix) == normalize_matrix(matrix)

\* matrix / (norms + 1e-10) is a new array: the matrix passed in is as it was
RawAfterNormalize(matrix) == matrix

\* main, line 202
Normalize ==
    /\ pc = "loaded"
    /\ norm_matrix' = normalize_matrix(embed_matrix)
    /\ embed_matrix' = RawAfterNormalize(embed_matrix)
    /\ pc' = "ready"
    /\ UNCHANGED <<csv, tie_order, err, df, call, results>>

\* ---- semantic_search -------------------------------------------------------
\* step B: query_vec / (np.linalg.norm(query_vec) + 1e-10)
normalize_query(query_vec) == DivideByNorm(query_vec, L2Norm(query_vec))

\* a product that raises only when the query is shorter than the rows
MatmulRaises_short_only(matrix, query_norm) ==
    \E i \in 1..Len(matrix) : Len(matrix[i]) > Len(query_norm)

\* step C: norm_matrix @ query_norm raises ValueError when the inner
\* dimensions differ
MatmulRaises(matrix, query_norm) ==
    \E i \in 1..Len(matrix) : Len(matrix[i]) # Len(query_norm)

Matmul(matrix, query_norm) ==
    [i \in 1..Len(matrix) |-> Dot(matrix[i], query_norm)]

\* step D: scores[mask] = -1.0 where mask = (df["Score"].values != score_filter)
MaskScores(scores, frame, score_filter) ==
    [i \in 1..Len(scores) |->
        IF score_filter # None /\ frame[i].Score # score_filter
        THEN -SCALE ELSE scores[i]]

\* np.argsort: the positions in ascending order of score, equal scores in the
\* order of the build
Argsort(scores, order) ==
    LET n == Len(scores)
        Before(i, j) ==
            \/ scores[i] < scores[j]
            \/ scores[i] = scores[j] /\ (IF order = "ascending" THEN i < j ELSE j < i)
    IN  [p \in 1..n |->
            CHOOSE i \in 1..n : Cardinality({j \in 1..n : Before(j, i)}) = p - 1]

\* the [::-1] left out
Reverse_omitted(a) == a

\* a[::-1]
Reverse(a) == [p \in 1..Len(a) |-> a[Len(a) + 1 - p]]

\* a[-k:]
Take_last(a, k) == SubSeq(a, Len(a) - Min(k, Len(a)) + 1, Len(a))

\* a[:k-1]
Take_one_less(a, k) == SubSeq(a, 1, Min(k - 1, Len(a)))

\* a[:k]
Take(a, k) == SubSeq(a, 1, Min(k, Len(a)))

\* step E: np.argsort(scores)[::-1][:top_k]
TopIndices(scores, top_k, order) == Take(Reverse(Argsort(scores, order)), top_k)

\* step F: the rows at top_indices with their similarity, renumbered from 0
BuildResults(frame, scores, top_indices) ==
    [p \in 1..Len(top_indices) |->
        [Score |-> frame[top_indices[p]].Score,
         similarity |-> scores[top_indices[p]],
         content |-> frame[top_indices[p]].content]]

\* step D writes the mask into scores, the new array step C made: the matrix
\* passed in is as it was
MatrixAfterMask_in_place(matrix, frame, score_filter) ==
    [i \in 1..Len(matrix) |->
        IF score_filter # None /\ frame[i].Score # score_filter
        THEN [j \in 1..Len(matrix[i]) |-> -SCALE]
        ELSE matrix[i]]

MatrixAfterMask(matrix, frame, score_filter) == matrix

\* step F adds the similarity column to the copy df.iloc[...].copy() made: the
\* frame passed in is as it was
FrameAfterResults_no_copy(frame, scores, top_indices) ==
    [i \in 1..Len(frame) |->
        IF \E p \in 1..Len(top_indices) : top_indices[p] = i
        THEN [Score |-> frame[i].Score, content |-> frame[i].content,
              embedding |-> frame[i].embedding, similarity |-> scores[i]]
        ELSE frame[i]]

FrameAfterResults(frame, scores, top_indices) == frame

\* the whole call: what it raises or returns, and the values its arguments
\* df and norm_matrix (passed by reference) have when it ends
semantic_search(query_vec, frame, matrix, top_k, score_filter, order) ==
    LET query_norm == normalize_query(query_vec)
    IN  IF MatmulRaises(matrix, query_norm)
        THEN [raises |-> "ValueError", results |-> <<>>,
              df |-> frame, norm_matrix |-> matrix]
        ELSE LET scores == MaskScores(Matmul(matrix, query_norm), frame, score_filter)
                 top_indices == TopIndices(scores, top_k, order)
             IN  [raises |-> NoError,
                  results |-> BuildResults(frame, scores, top_indices),
                  df |-> FrameAfterResults(frame, scores, top_indices),
                  norm_matrix |-> MatrixAfterMask(matrix, frame, score_filter)]

\* main, lines 215-216 and 246-251: one search; an exception ends the program
Search(query_vec, top_k, score_filter) ==
    /\ pc = "ready"
    /\ \E r \in {semantic_search(query_vec, df, norm_matrix, top_k,
                                 score_filter, tie_order)} :
          /\ call' = [query_vec |-> query_vec, top_k |-> top_k,
                      score_filter |-> score_filter]
          /\ df' = r.df
          /\ norm_matrix' = r.norm_matrix
          /\ IF r.raises = NoError
             THEN /\ results' = r.results
                  /\ pc' = "print"
                  /\ err' = err
             ELSE /\ pc' = "error"
                  /\ err' = r.raises
                  /\ UNCHANGED results
    /\ UNCHANGED <<csv, tie_order, embed_matrix>>

SemanticSearch ==
    /\ pc = "ready"
    /\ \E query_vec \in QueryVecs, top_k \in TopKs, score_filter \in ScoreFilters :
          Search(query_vec, top_k, score_filter)

\* main, lines 217 and 251: print_results; the loop's query and results are
\* not used again
PrintResults ==
    /\ pc = "print"
    /\ pc' = "ready"
    /\ call' = NoCall
    /\ results' = <<>>
    /\ UNCHANGED <<csv, tie_order, err, df, embed_matrix, norm_matrix>>

\* main, lines 229-231: the user leaves the loop
Quit ==
    /\ pc = "ready"
    /\ pc' = "exit"
    /\ UNCHANGED <<csv, tie_order, err, df, embed_matrix, norm_matrix, call, results>>

Next ==
    \/ LoadData /\ UNCHANGED <<log, threads, rest_vars>>
    \/ Normalize /\ UNCHANGED <<log, threads, rest_vars>>
    \/ SemanticSearch /\ UNCHANGED <<log, threads, rest_vars>>
    \/ PrintResults /\ UNCHANGED <<log, threads, rest_vars>>
    \/ Quit /\ UNCHANGED <<log, threads, rest_vars>>

Spec == Init /\ [][Next]_vars

\* ---- a session of searches that keeps what every search returned ------------
\* main's interactive loop (lines 226-251) over one index, every returned result
\* written down in log, with a few records and queries so that the same query
\* comes back after others
RepeatRows ==
    { CsvRow(5, VecA),
      CsvRow(1, VecE),
      CsvRow(1, VecC) }

RepeatCsvs ==
    { [exists |-> TRUE, has_embedding |-> TRUE, rows |-> rows] :
        rows \in UNION { [1..n -> RepeatRows] : n \in 1..MaxN } }

RepeatCalls ==
    { [query_vec |-> query_vec, top_k |-> 2, score_filter |-> score_filter] :
        query_vec \in {Unit(VecA), Unit(VecE)}, score_filter \in {None, 5} }

InitRepeat ==
    /\ csv \in RepeatCsvs
    /\ tie_order \in TieOrders
    /\ pc = "start"
    /\ err = NoError
    /\ df = <<>>
    /\ embed_matrix = <<>>
    /\ norm_matrix = <<>>
    /\ call = NoCall
    /\ results = <<>>
    /\ log = <<>>
    /\ threads = [t \in Threads |-> NotCalled]
    /\ StoreOff /\ AgentOff /\ ChatOff /\ WindowOff /\ LateOff

RepeatSearch ==
    /\ pc = "ready"
    /\ Len(log) < MaxCalls
    /\ \E c \in RepeatCalls :
          /\ Search(c.query_vec, c.top_k, c.score_filter)
          /\ log' = IF pc' = "print"
                    THEN Append(log, [call |-> c, results |-> results'])
                    ELSE log

NextRepeat ==
    \/ LoadData /\ UNCHANGED <<log, threads, rest_vars>>
    \/ Normalize /\ UNCHANGED <<log, threads, rest_vars>>
    \/ RepeatSearch /\ UNCHANGED <<threads, rest_vars>>
    \/ PrintResults /\ UNCHANGED <<log, threads, rest_vars>>
    \/ Quit /\ UNCHANGED <<log, threads, rest_vars>>

SpecRepeat == InitRepeat /\ [][NextRepeat]_vars

TypeOK ==
    /\ pc \in {"start", "loaded", "ready", "print", "exit", "error"}
    /\ err \in {NoError, "ValueError"}
    /\ Len(df) <= MaxN
    /\ Len(results) <= Len(df)

\* ---- searches that run at the same time --------------------------------------
\* semantic_search (lines 121-150) called by several threads against one built
\* index; every step A-F of a call is one step of its thread. df and
\* norm_matrix are shared, everything else is a local of the call.
ConcCsvs ==
    { [exists |-> TRUE, has_embedding |-> TRUE, rows |-> rows] :
        rows \in { <<CsvRow(5, VecA),
                     CsvRow(1, VecE)>>,
                   <<CsvRow(1, VecC),
                     CsvRow(5, VecA),
                     CsvRow(1, VecE)>>,
                   <<CsvRow(1, VecE),
                     CsvRow(1, VecE),
                     CsvRow(5, VecZ)>> } }

\* the queries the threads make: those of the repeat session and one of
\* another dimension than the index
ConcCalls ==
    RepeatCalls \cup {[query_vec |-> VecW, top_k |-> 1, score_filter |-> None]}

\* the index is built before the threads start
InitConcurrent ==
    /\ csv \in ConcCsvs
    /\ tie_order \in TieOrders
    /\ pc = "ready"
    /\ err = NoError
    /\ df = load_data(csv).df
    /\ embed_matrix = load_data(csv).embed_matrix
    /\ norm_matrix = normalize_matrix(load_data(csv).embed_matrix)
    /\ call = NoCall
    /\ results = <<>>
    /\ log = <<>>
    /\ threads = [t \in Threads |-> NotCalled]
    /\ StoreOff /\ AgentOff /\ ChatOff /\ WindowOff /\ LateOff

\* step A: the query text becomes its embedding (lines 122-126)
StepA(t) ==
    /\ threads[t].at = "idle"
    /\ \E c \in ConcCalls :
          threads' = [threads EXCEPT ![t].at = "B", ![t].args = c]
    /\ UNCHANGED <<df, norm_matrix>>

\* step B: normalise the query vector (line 129)
StepB(t) ==
    /\ threads[t].at = "B"
    /\ threads' = [threads EXCEPT
                      ![t].at = "C",
                      ![t].query_norm = normalize_query(threads[t].args.query_vec)]
    /\ UNCHANGED <<df, norm_matrix>>

\* step C: the similarity of every row (line 134)
StepC(t) ==
    /\ threads[t].at = "C"
    /\ threads' = IF MatmulRaises(norm_matrix, threads[t].query_norm)
                  THEN [threads EXCEPT ![t].at = "raised"]
                  ELSE [threads EXCEPT
                          ![t].at = "D",
                          ![t].scores = Matmul(norm_matrix, threads[t].query_norm)]
    /\ UNCHANGED <<df, norm_matrix>>

\* step D: the mask of the filter (lines 138-140)
StepD(t) ==
    /\ threads[t].at = "D"
    /\ threads' = [threads EXCEPT
                      ![t].at = "E",
                      ![t].scores = MaskScores(threads[t].scores, df,
                                               threads[t].args.score_filter)]
    /\ norm_matrix' = MatrixAfterMask(norm_matrix, df, threads[t].args.score_filter)
    /\ UNCHANGED df

\* step E: the rows of the top_k greatest scores (line 144)
StepE(t) ==
    /\ threads[t].at = "E"
    /\ threads' = [threads EXCEPT
                      ![t].at = "F",
                      ![t].top_indices = TopIndices(threads[t].scores,
                                                    threads[t].args.top_k, tie_order)]
    /\ UNCHANGED <<df, norm_matrix>>

\* step F: the result frame, and the return (lines 147-150)
StepF(t) ==
    /\ threads[t].at = "F"
    /\ threads' = [threads EXCEPT
                      ![t].at = "returned",
                      ![t].results = BuildResults(df, threads[t].scores,
                                                  threads[t].top_indices)]
    /\ df' = FrameAfterResults(df, threads[t].scores, threads[t].top_indices)
    /\ UNCHANGED norm_matrix

NextConcurrent ==
    \E t \in Threads :
        \/ StepA(t) /\ UNCHANGED <<csv, tie_order, pc, err, embed_matrix, call, results, log, rest_vars>>
        \/ StepB(t) /\ UNCHANGED <<csv, tie_order, pc, err, embed_matrix, call, results, log, rest_vars>>
        \/ StepC(t) /\ UNCHANGED <<csv, tie_order, pc, err, embed_matrix, call, results, log, rest_vars>>
        \/ StepD(t) /\ UNCHANGED <<csv, tie_order, pc, err, embed_matrix, call, results, log, rest_vars>>
        \/ StepE(t) /\ UNCHANGED <<csv, tie_order, pc, err, embed_matrix, call, results, log, rest_vars>>
        \/ StepF(t) /\ UNCHANGED <<csv, tie_order, pc, err, embed_matrix, call, results, log, rest_vars>>

SpecConcurrent == InitConcurrent /\ [][NextConcurrent]_vars

\* ---- 03_embed_and_store.py ----------------------------------------------------
\* main reads the texts, asks the embedding service for their vectors batch by
\* batch, adds the vectors as the embedding column and writes OUTPUT_PATH.
not_store == <<search_vars, log, threads, agent_vars, chat_vars, window_vars, late_vars>>

\* the content column of a CSV of n reviews; the text of row k is modelled by
\* its number k, its Score is one of 1..5
TextsOf(n) == [k \in 1..n |-> k]

ScoreOf(t) == 1 + (t % 5)

\* the float64 vector the embedding service has for a text
Embedding(t) ==
    <<SCALE * Fine - 7 * t, IF t % 2 = 0 THEN 13 * t + 3 ELSE -(13 * t + 3)>>

\* response.data for a batch: one vector per input in order, or, from a
\* service that miscounts, one vector less or one more
ResponseKinds == {"exact", "short", "long"}

ResponseData(batch, kind) ==
    LET exact == [k \in 1..Len(batch) |-> Embedding(batch[k])]
    IN  IF kind = "short" THEN SubSeq(exact, 1, Len(exact) - 1)
        ELSE IF kind = "long" THEN Append(exact, exact[Len(exact)])
        ELSE exact

\* a slice one text too long
Batch_overlapping(ts, i) == SubSeq(ts, i + 1, Min(i + BATCH_SIZE + 1, Len(ts)))

\* texts[i : i + BATCH_SIZE]
Batch(ts, i) == SubSeq(ts, i + 1, Min(i + BATCH_SIZE, Len(ts)))

InitStore ==
    /\ SearchOff /\ AgentOff /\ ChatOff /\ WindowOff /\ LateOff
    /\ \E n \in 0..MaxTexts : texts = TextsOf(n)
    /\ batch_i = 0
    /\ all_embeddings = <<>>
    /\ exchanges = <<>>
    /\ store_pc = "loop"
    /\ out_csv = NoFile

\* lines 48-58: one turn of the loop, the request answered
EmbedBatch ==
    /\ store_pc = "loop"
    /\ batch_i < Len(texts)
    /\ \E kind \in ResponseKinds :
          LET batch == Batch(texts, batch_i)
              data == ResponseData(batch, kind)
          IN  /\ all_embeddings' =
                    all_embeddings \o [k \in 1..Len(data) |-> json_dumps(data[k])]
              /\ exchanges' = Append(exchanges, [input |-> batch, kind |-> kind])
    /\ batch_i' = batch_i + BATCH_SIZE
    /\ UNCHANGED <<texts, store_pc, out_csv>>

\* line 53: the request raises, the exception ends main
EmbedFails ==
    /\ store_pc = "loop"
    /\ batch_i < Len(texts)
    /\ exchanges' = Append(exchanges, [input |-> Batch(texts, batch_i), kind |-> "raised"])
    /\ store_pc' = "APIError"
    /\ UNCHANGED <<texts, batch_i, all_embeddings, out_csv>>

\* line 61, after the loop: pandas sets the column, or raises ValueError when
\* the list has not one value per row
AssignColumn ==
    /\ store_pc = "loop"
    /\ batch_i >= Len(texts)
    /\ store_pc' = IF Len(all_embeddings) = Len(texts) THEN "save" ELSE "ValueError"
    /\ UNCHANGED <<texts, batch_i, all_embeddings, exchanges, out_csv>>

\* lines 62-63: df.to_csv
ToCsv ==
    /\ store_pc = "save"
    /\ out_csv' = [exists |-> TRUE, has_embedding |-> TRUE,
                   rows |-> [k \in 1..Len(texts) |->
                               [Score |-> ScoreOf(texts[k]),
                                embedding |-> all_embeddings[k]]]]
    /\ store_pc' = "print"
    /\ UNCHANGED <<texts, batch_i, all_embeddings, exchanges>>

\* lines 65-66: the dimension of the first row's vector is printed; iloc[0]
\* raises IndexError when there is no row
PrintDimension ==
    /\ store_pc = "print"
    /\ store_pc' = IF Len(texts) = 0 THEN "IndexError" ELSE "done"
    /\ UNCHANGED <<texts, batch_i, all_embeddings, exchanges, out_csv>>

NextStore ==
    \/ EmbedBatch /\ UNCHANGED not_store
    \/ EmbedFails /\ UNCHANGED not_store
    \/ AssignColumn /\ UNCHANGED not_store
    \/ ToCsv /\ UNCHANGED not_store
    \/ PrintDimension /\ UNCHANGED not_store

SpecStore == InitStore /\ [][NextStore]_vars

\* ---- phone_review_agent.py ----------------------------------------------------
\* The Gradio app: session_store maps a session id to a message history,
\* RunnableWithMessageHistory reads the history of the session id it is given
\* before the call and adds the new input and the reply after it. The session
\* id comes from the gr.State component session_id.
not_agent == <<search_vars, log, threads, store_vars, chat_vars, window_vars, late_vars>>

\* what a user may type: nothing but blanks, or a text
UserTexts == {" ", "text"}

\* line 139 runs once, while the Blocks are built: uuid4 gives one id
InitAgent ==
    /\ SearchOff /\ StoreOff /\ ChatOff /\ WindowOff /\ LateOff
    /\ session_id_value \in Uuids
    /\ tab_state = [t \in Tabs |-> ""]
    /\ session_store = [id \in Uuids |-> NoSession]
    /\ chatbot = [t \in Tabs |-> <<>>]
    /\ injected = [t \in Tabs |-> <<>>]
    /\ chats_made = 0

\* a browser tab loads the app: its State components start with the values
\* the components were built with
OpenTab(t) ==
    /\ tab_state[t] = ""
    /\ tab_state' = [tab_state EXCEPT ![t] = session_id_value]
    /\ UNCHANGED <<session_id_value, session_store, chatbot, injected, chats_made>>

\* get_session_history: the store after the call, the key created if new
get_session_history(store, session_id) ==
    IF store[session_id].exists THEN store
    ELSE [store EXCEPT ![session_id] = [exists |-> TRUE, messages |-> <<>>]]

\* chat, called by the send button or the input box of tab t
Chat(t, text) ==
    /\ tab_state[t] # ""
    /\ chats_made < MaxChats
    /\ chats_made' = chats_made + 1
    /\ IF text = " "
       THEN UNCHANGED <<session_store, chatbot, injected>>
       ELSE LET session_id == tab_state[t]
                store == get_session_history(session_store, session_id)
                history_msgs == store[session_id].messages
                human == [type |-> "human", tab |-> t, n |-> chats_made + 1]
                response == [type |-> "ai", tab |-> t, n |-> chats_made + 1]
            IN  /\ injected' = [injected EXCEPT ![t] = history_msgs]
                /\ session_store' =
                      [store EXCEPT ![session_id].messages =
                                        history_msgs \o <<human, response>>]
                /\ chatbot' = [chatbot EXCEPT
                                  ![t] = Append(chatbot[t], <<human, response>>)]
    /\ UNCHANGED <<session_id_value, tab_state>>

\* clear_history, called by the clear button of tab t
ClearHistory(t) ==
    /\ tab_state[t] # ""
    /\ chatbot[t] # <<>>
    /\ session_store' =
          IF session_store[tab_state[t]].exists
          THEN [session_store EXCEPT ![tab_state[t]].messages = <<>>]
          ELSE session_store
    /\ chatbot' = [chatbot EXCEPT ![t] = <<>>]
    /\ UNCHANGED <<session_id_value, tab_state, injected, chats_made>>

NextAgent ==
    \E t \in Tabs :
        \/ OpenTab(t) /\ UNCHANGED not_agent
        \/ (\E text \in UserTexts : Chat(t, text)) /\ UNCHANGED not_agent
        \/ ClearHistory(t) /\ UNCHANGED not_agent

SpecAgent == InitAgent /\ [][NextAgent]_vars

\* ---- demo03_multi_turn.py ------------------------------------------------------
\* chat keeps the whole conversation in messages and sends all of it with
\* every call. An exception of the API call is not caught: it ends the script.
not_chat == <<search_vars, log, threads, store_vars, agent_vars, window_vars, late_vars>>

SystemMessage == [role |-> "system", content |-> "system prompt"]

UserInputs == {"q1", "q2"}

Replies == {"a1", "a2"}

InitChat ==
    /\ SearchOff /\ StoreOff /\ AgentOff /\ WindowOff /\ LateOff
    /\ messages = <<SystemMessage>>
    /\ chat_pc = "idle"
    /\ user_input = ""
    /\ request = <<>>
    /\ turns = <<>>

\* a request with the current input only
RequestMessages_input_only(msgs) == <<msgs[Len(msgs)]>>

\* line 52, messages=messages: the request carries the whole list
RequestMessages(msgs) == msgs

\* lines 47-55: the input is appended and the request is sent
ChatSend ==
    /\ chat_pc = "idle"
    /\ Len(turns) < MaxTurns
    /\ \E u \in UserInputs :
          /\ messages' = Append(messages, [role |-> "user", content |-> u])
          /\ user_input' = u
    /\ request' = RequestMessages(messages')
    /\ chat_pc' = "waiting"
    /\ UNCHANGED turns

\* lines 58-63: the reply is appended and returned
ChatReply ==
    /\ chat_pc = "waiting"
    /\ \E a \in Replies :
          /\ messages' = Append(messages, [role |-> "assistant", content |-> a])
          /\ turns' = Append(turns, [user |-> user_input, reply |-> a])
    /\ user_input' = ""
    /\ chat_pc' = "idle"
    /\ UNCHANGED request

\* lines 50-55: the API call raises
ChatRaises ==
    /\ chat_pc = "waiting"
    /\ chat_pc' = "failed"
    /\ UNCHANGED <<messages, user_input, request, turns>>

NextChat ==
    \/ ChatSend /\ UNCHANGED not_chat
    \/ ChatReply /\ UNCHANGED not_chat
    \/ ChatRaises /\ UNCHANGED not_chat

SpecChat == InitChat /\ [][NextChat]_vars

\* ---- demo05_memory.py, part 4: window memory ---------------------------------
\* chat_with_window keeps the last WINDOW_SIZE rounds in window_history. An
\* exception of model.invoke is not caught: it ends the script.
not_window == <<search_vars, log, threads, store_vars, agent_vars, chat_vars, late_vars>>

WindowSystemMessage == [type |-> "system", content |-> "assistant prompt"]

InitWindow ==
    /\ SearchOff /\ StoreOff /\ AgentOff /\ ChatOff /\ LateOff
    /\ window_history = <<>>
    /\ win_pc = "idle"
    /\ win_input = ""
    /\ win_request = <<>>
    /\ rounds = <<>>

\* one pop instead of two
Trim_one_pop(history) ==
    IF Len(history) > WINDOW_SIZE * 2 THEN Tail(history) ELSE history

\* the oldest round is dropped one round too late
Trim_late(history) ==
    IF Len(history) > WINDOW_SIZE * 2 + 2 THEN Tail(Tail(history)) ELSE history

\* lines 217-219: the oldest round is dropped when the window is exceeded
Trim(history) ==
    IF Len(history) > WINDOW_SIZE * 2 THEN Tail(Tail(history)) ELSE history

\* lines 209-213: the input is appended, the model gets the system message
\* and the window
WindowSend ==
    /\ win_pc = "idle"
    /\ Len(rounds) < MaxRounds
    /\ \E u \in UserInputs :
          /\ window_history' = Append(window_history, [type |-> "human", content |-> u])
          /\ win_input' = u
    /\ win_request' = <<WindowSystemMessage>> \o window_history'
    /\ win_pc' = "waiting"
    /\ UNCHANGED rounds

\* lines 214-221: the reply is appended, the window trimmed, the reply returned
WindowReply ==
    /\ win_pc = "waiting"
    /\ \E a \in Replies :
          /\ window_history' =
                Trim(Append(window_history, [type |-> "ai", content |-> a]))
          /\ rounds' = Append(rounds, [user |-> win_input, reply |-> a])
    /\ win_input' = ""
    /\ win_pc' = "idle"
    /\ UNCHANGED win_request

\* lines 210-213: model.invoke raises
WindowRaises ==
    /\ win_pc = "waiting"
    /\ win_pc' = "failed"
    /\ UNCHANGED <<window_history, win_input, win_request, rounds>>

NextWindow ==
    \/ WindowSend /\ UNCHANGED not_window
    \/ WindowReply /\ UNCHANGED not_window
    \/ WindowRaises /\ UNCHANGED not_window

SpecWindow == InitWindow /\ [][NextWindow]_vars

\* ---- calculate (demo05_function_call.py, demo07_react_agent.py) -----------
\* An expression is a sequence of one-character strings.  The characters the
\* expressions of the model are made of: some of the allowed ones and one that
\* is not allowed.
ExprChars == {"0", "1", "+", "/", "(", ")", " ", "x"}

RECURSIVE ExprsOfLen(_)
ExprsOfLen(n) ==
    IF n = 0 THEN {<<>>}
    ELSE {Append(e, c) : e \in ExprsOfLen(n - 1), c \in ExprChars}

\* the expressions of at most max_len characters
Expressions(max_len) == UNION {ExprsOfLen(n) : n \in 0..max_len}

\* the expression as one string
RECURSIVE Join(_)
Join(chars) ==
    IF chars = <<>> THEN "" ELSE Join(SubSeq(chars, 1, Len(chars) - 1)) \o chars[Len(chars)]

\* line 47: allowed = set("0123456789+-*/(). ")
allowed ==
    {"0", "1", "2", "3", "4", "5", "6", "7", "8", "9",
     "+", "-", "*", "/", "(", ")", ".", " "}

\* line 48: all(c in allowed for c in expression)
AllAllowed(expr) == \A k \in 1..Len(expr) : expr[k] \in allowed

\* -- Python's eval on these expressions: tokens, then syntax and value ------
DecimalDigits == {"0", "1", "2", "3", "4", "5", "6", "7", "8", "9"}

\* the end of the run of digits and name characters that starts at i
RECURSIVE RunEnd(_, _)
RunEnd(chars, i) ==
    IF i <= Len(chars) /\ chars[i] \in DecimalDigits \cup {"x"}
    THEN RunEnd(chars, i + 1) ELSE i

\* a run that starts with a digit is a decimal integer; a letter in it, or a
\* leading zero before a non-zero digit, is a syntax error
NumberToken(run) ==
    IF \E k \in 1..Len(run) : run[k] \notin DecimalDigits
    THEN [t |-> "bad", v |-> 0]
    ELSE IF Len(run) > 1 /\ run[1] = "0" /\ \E k \in 1..Len(run) : run[k] # "0"
    THEN [t |-> "bad", v |-> 0]
    ELSE [t |-> "num", v |-> ParseDigits(run)]

RECURSIVE Tokens(_, _)
Tokens(chars, i) ==
    IF i > Len(chars) THEN <<>>
    ELSE IF chars[i] = " " THEN Tokens(chars, i + 1)
    ELSE IF chars[i] \in DecimalDigits
    THEN <<NumberToken(SubSeq(chars, i, RunEnd(chars, i) - 1))>>
            \o Tokens(chars, RunEnd(chars, i))
    ELSE IF chars[i] = "x"
    THEN <<[t |-> "name", v |-> 0]>> \o Tokens(chars, RunEnd(chars, i))
    ELSE IF chars[i] = "/" /\ i < Len(chars) /\ chars[i + 1] = "/"
    THEN <<[t |-> "//", v |-> 0]>> \o Tokens(chars, i + 2)
    ELSE <<[t |-> chars[i], v |-> 0]>> \o Tokens(chars, i + 1)

\* values: an int, a float (the fraction num / den it stands for) or the
\* empty tuple
IntValue(n) == [kind |-> "int", num |-> n, den |-> 1]

EmptyTuple == [kind |-> "tuple", num |-> 0, den |-> 1]

RECURSIVE GCD(_, _)
GCD(a, b) == IF b = 0 THEN a ELSE GCD(b, a % b)

FloatValue(n, d) ==
    LET g == GCD(n, d) IN [kind |-> "float", num |-> n \div g, den |-> d \div g]

IsNumber(v) == v.kind \in {"int", "float"}

\* the outcome of an operation: the exception it raises ("" for none) and
\* its value
Value(v) == [err |-> "", val |-> v]

Raise(e) == [err |-> e, val |-> IntValue(0)]

BinaryAdd(a, b) ==
    IF a.kind = "tuple" /\ b.kind = "tuple" THEN Value(EmptyTuple)
    ELSE IF ~(IsNumber(a) /\ IsNumber(b)) THEN Raise("TypeError")
    ELSE IF a.kind = "int" /\ b.kind = "int" THEN Value(IntValue(a.num + b.num))
    ELSE Value(FloatValue(a.num * b.den + b.num * a.den, a.den * b.den))

TrueDivide(a, b) ==
    IF ~(IsNumber(a) /\ IsNumber(b)) THEN Raise("TypeError")
    ELSE IF b.num = 0 THEN Raise("ZeroDivisionError")
    ELSE Value(FloatValue(a.num * b.den, a.den * b.num))

FloorDivide(a, b) ==
    IF ~(IsNumber(a) /\ IsNumber(b)) THEN Raise("TypeError")
    ELSE IF b.num = 0 THEN Raise("ZeroDivisionError")
    ELSE IF a.kind = "int" /\ b.kind = "int" THEN Value(IntValue(a.num \div b.num))
    ELSE Value(FloatValue((a.num * b.den) \div (a.den * b.num), 1))

UnaryPlus(a) == IF IsNumber(a) THEN Value(a) ELSE Raise("TypeError")

Binary(op, a, b) ==
    IF op = "+" THEN BinaryAdd(a, b)
    ELSE IF op = "/" THEN TrueDivide(a, b)
    ELSE FloorDivide(a, b)

\* the result of parsing from a position: ok is FALSE on a syntax error, err
\* is the first exception the evaluation raises, pos the next token
SyntaxFails == [ok |-> FALSE, err |-> "", val |-> IntValue(0), pos |-> 0]

Parsed(outcome, pos) ==
    [ok |-> TRUE, err |-> outcome.err, val |-> outcome.val, pos |-> pos]

\* operands are evaluated left to right, then the operation is applied
Combine(op, l, r) ==
    IF ~r.ok THEN SyntaxFails
    ELSE IF l.err # "" THEN Parsed(Raise(l.err), r.pos)
    ELSE IF r.err # "" THEN Parsed(Raise(r.err), r.pos)
    ELSE Parsed(Binary(op, l.val, r.val), r.pos)

TokenAt(ts, i) == IF i <= Len(ts) THEN ts[i].t ELSE "end"

RECURSIVE ParseSum(_, _), SumRest(_, _), ParseTerm(_, _), TermRest(_, _)
RECURSIVE ParseFactor(_, _), ParsePrimary(_, _), Trailers(_, _), ParseAtom(_, _)

\* atom: NUMBER | NAME | "(" ")" | "(" sum ")"
ParseAtom(ts, i) ==
    IF TokenAt(ts, i) = "num" THEN Parsed(Value(IntValue(ts[i].v)), i + 1)
    ELSE IF TokenAt(ts, i) = "name" THEN Parsed(Raise("NameError"), i + 1)
    ELSE IF TokenAt(ts, i) = "(" /\ TokenAt(ts, i + 1) = ")"
    THEN Parsed(Value(EmptyTuple), i + 2)
    ELSE IF TokenAt(ts, i) = "("
    THEN LET inner == ParseSum(ts, i + 1) IN
         IF inner.ok /\ TokenAt(ts, inner.pos) = ")"
         THEN Parsed(inner, inner.pos + 1) ELSE SyntaxFails
    ELSE SyntaxFails

\* a call of what came before: the argument is evaluated, then the call of an
\* int, a float or a tuple raises TypeError
Trailers(ts, l) ==
    IF ~l.ok THEN SyntaxFails
    ELSE IF TokenAt(ts, l.pos) # "(" THEN l
    ELSE IF TokenAt(ts, l.pos + 1) = ")"
    THEN Trailers(ts, Parsed(Raise(IF l.err # "" THEN l.err ELSE "TypeError"),
                             l.pos + 2))
    ELSE LET arg == ParseSum(ts, l.pos + 1) IN
         IF arg.ok /\ TokenAt(ts, arg.pos) = ")"
         THEN Trailers(ts, Parsed(Raise(IF l.err # "" THEN l.err
                                        ELSE IF arg.err # "" THEN arg.err
                                        ELSE "TypeError"),
                                  arg.pos + 1))
         ELSE SyntaxFails

ParsePrimary(ts, i) == Trailers(ts, ParseAtom(ts, i))

\* factor: "+" factor | primary
ParseFactor(ts, i) ==
    IF TokenAt(ts, i) = "+"
    THEN LET f == ParseFactor(ts, i + 1) IN
         IF ~f.ok THEN SyntaxFails
         ELSE IF f.err # "" THEN f
         ELSE Parsed(UnaryPlus(f.val), f.pos)
    ELSE ParsePrimary(ts, i)

TermRest(ts, l) ==
    IF ~l.ok THEN SyntaxFails
    ELSE IF TokenAt(ts, l.pos) \in {"/", "//"}
    THEN TermRest(ts, Combine(ts[l.pos].t, l, ParseFactor(ts, l.pos + 1)))
    ELSE l

\* term: factor (("/" | "//") factor)*
ParseTerm(ts, i) == TermRest(ts, ParseFactor(ts, i))

SumRest(ts, l) ==
    IF ~l.ok THEN SyntaxFails
    ELSE IF TokenAt(ts, l.pos) = "+"
    THEN SumRest(ts, Combine("+", l, ParseTerm(ts, l.pos + 1)))
    ELSE l

\* sum: term ("+" term)*
ParseSum(ts, i) == SumRest(ts, ParseTerm(ts, i))

\* line 50: eval(expression): a syntax error anywhere comes first, then the
\* first exception of the evaluation, otherwise the value
eval(expr) ==
    LET ts == Tokens(expr, 1)
        p == ParseSum(ts, 1)
    IN  IF (\E k \in 1..Len(ts) : ts[k].t = "bad") \/ ~p.ok \/ p.pos # Len(ts) + 1
        THEN Raise("SyntaxError")
        ELSE [err |-> p.err, val |-> p.val]

\* str(result); a float is written as the fraction it stands for, not with
\* the digits Python prints
str(v) ==
    IF v.kind = "int" THEN ToString(v.num)
    ELSE IF v.kind = "tuple" THEN "()"
    ELSE "float " \o ToString(v.num) \o "/" \o ToString(v.den)

\* the returns of the two functions; the exception's message stands as the
\* name of its class
IllegalMessage(file) ==
    IF file = "demo05" THEN "illegal characters"
    ELSE "illegal characters, basic arithmetic only"

FailureMessage(file, e) ==
    IF file = "demo05" THEN "calculation failed: " \o e
    ELSE "calculation failed(07): " \o e

ResultMessage(file, expr, v) ==
    IF file = "demo05" THEN str(v) ELSE Join(expr) \o " = " \o str(v)

\* the expression is evaluated whatever its characters are
calculate_unchecked(file, expr) ==
    LET r == eval(expr) IN
    [evaluated |-> <<expr>>,
     raised |-> "",
     return |-> IF r.err # "" THEN FailureMessage(file, r.err)
                ELSE ResultMessage(file, expr, r.val)]

\* demo05 lines 43-53, demo07 lines 90-104: what a call evaluates, what it
\* raises ("" for nothing) and what it returns
calculate(file, expr) ==
    IF ~AllAllowed(expr)
    THEN [evaluated |-> <<>>, raised |-> "", return |-> IllegalMessage(file)]
    ELSE LET r == eval(expr) IN
         [evaluated |-> <<expr>>,
          raised |-> "",
          return |-> IF r.err # "" THEN FailureMessage(file, r.err)
                     ELSE ResultMessage(file, expr, r.val)]

\* ---- a call of calculate ---------------------------------------------------
not_calc ==
    <<search_vars, log, threads, store_vars, agent_vars, chat_vars, window_vars,
      tools_vars, prep_vars>>

CalcFiles == {"demo05", "demo07"}

InitCalc ==
    /\ SearchOff /\ StoreOff /\ AgentOff /\ ChatOff /\ WindowOff
    /\ ToolsOff /\ PrepOff
    /\ calc_file \in CalcFiles
    /\ expression \in Expressions(MaxExprLen)
    /\ evaluated = <<>>
    /\ calc_return = ""
    /\ calc_pc = "call"

\* the call runs to its return, or to the exception that leaves it
Calculate ==
    /\ calc_pc = "call"
    /\ \E r \in {calculate(calc_file, expression)} :
          /\ evaluated' = r.evaluated
          /\ calc_return' = r.return
          /\ calc_pc' = IF r.raised # "" THEN "raised" ELSE "returned"
    /\ UNCHANGED <<calc_file, expression>>

NextCalc == Calculate /\ UNCHANGED not_calc

SpecCalc == InitCalc /\ [][NextCalc]_vars

\* ---- demo05_function_call.py: the tool-call round trip ---------------------
not_tools ==
    <<search_vars, log, threads, store_vars, agent_vars, chat_vars, window_vars,
      calc_vars, prep_vars>>

\* JSON text of a tool call's arguments: a sequence of tokens; a string token
\* carries its text as a sequence of pieces
LB == [t |-> "{", v |-> <<>>]

RB == [t |-> "}", v |-> <<>>]

Colon == [t |-> ":", v |-> <<>>]

Comma == [t |-> ",", v |-> <<>>]

Str(text) == [t |-> "string", v |-> text]

WeatherArguments(city) == <<LB, Str(<<"city">>), Colon, Str(<<city>>), RB>>

CalculateArguments(expr) == <<LB, Str(<<"expression">>), Colon, Str(expr), RB>>

\* the arguments the model may send: fitting ones, an empty object, and a
\* text cut off in the middle
ArgumentTexts ==
    {WeatherArguments("Beijing"), WeatherArguments("Paris"),
     CalculateArguments(<<"1", "+", "1">>),
     <<LB, RB>>, <<LB, Str(<<"city">>), Colon>>}

\* the function names the model may send: the two of the tool list and one
\* that is not in it
FunctionNames == {"get_weather", "calculate", "get_time"}

CallIds == {"call_a", "call_b"}

ToolCalls ==
    {[id |-> i, name |-> n, arguments |-> a] :
        i \in CallIds, n \in FunctionNames, a \in ArgumentTexts}

RECURSIVE ToolCallLists(_)
ToolCallLists(n) ==
    IF n = 0 THEN {<<>>}
    ELSE {Append(l, c) : l \in ToolCallLists(n - 1), c \in ToolCalls}

\* a message; a field a message does not have is empty
Message(role, content, tool_calls, tool_call_id) ==
    [role |-> role, content |-> content, tool_calls |-> tool_calls,
     tool_call_id |-> tool_call_id, has_tool_calls |-> tool_calls # <<>>]

\* lines 100-102
UserMessage == Message("user", "weather in Beijing and 123 * 456", <<>>, "")

\* the message of the first response: up to max_calls tool calls, or a
\* direct answer whose tool_calls is None
FirstResponses(max_calls) ==
    {Message("assistant", "", calls, "") :
        calls \in UNION {ToolCallLists(n) : n \in 1..max_calls}}
    \cup {Message("assistant", "direct answer", <<>>, "")}

\* the pairs "key": "value" from position i up to the closing brace, or
\* [ok |-> FALSE] when the text is not of that form
RECURSIVE Members(_, _)
Members(tokens, i) ==
    IF i + 3 > Len(tokens) THEN [ok |-> FALSE, pairs |-> <<>>]
    ELSE IF tokens[i].t # "string" \/ tokens[i + 1].t # ":" \/ tokens[i + 2].t # "string"
    THEN [ok |-> FALSE, pairs |-> <<>>]
    ELSE LET pair == [key |-> tokens[i].v, value |-> tokens[i + 2].v] IN
         IF tokens[i + 3].t = "}" /\ i + 3 = Len(tokens)
         THEN [ok |-> TRUE, pairs |-> <<pair>>]
         ELSE IF tokens[i + 3].t = ","
         THEN LET rest == Members(tokens, i + 4) IN
              [ok |-> rest.ok, pairs |-> <<pair>> \o rest.pairs]
         ELSE [ok |-> FALSE, pairs |-> <<>>]

\* line 138: json.loads(tool_call.function.arguments): a dict, a string, or
\* JSONDecodeError
loads_arguments(tokens) ==
    IF tokens = <<LB, RB>> THEN [err |-> "", kind |-> "dict", pairs |-> <<>>]
    ELSE IF Len(tokens) = 1 /\ tokens[1].t = "string"
    THEN [err |-> "", kind |-> "str", pairs |-> <<>>]
    ELSE IF tokens # <<>> /\ tokens[1].t = "{" /\ Members(tokens, 2).ok
    THEN [err |-> "", kind |-> "dict", pairs |-> Members(tokens, 2).pairs]
    ELSE [err |-> "JSONDecodeError", kind |-> "", pairs |-> <<>>]

\* lines 33-40
get_weather(city) ==
    IF city = <<"Beijing">> THEN "sunny, -2 C, north-west wind 3"
    ELSE IF city = <<"Shanghai">> THEN "overcast, 8 C, south-east wind 2"
    ELSE IF city = <<"Guangzhou">> THEN "cloudy, 18 C, south wind 1"
    ELSE "no weather data for " \o Join(city)

\* f(**func_args) binds when func_args is a dict whose one key is the
\* function's parameter; otherwise the call raises TypeError
Binds(func_args, parameter) ==
    /\ func_args.kind = "dict"
    /\ Len(func_args.pairs) = 1
    /\ func_args.pairs[1].key = <<parameter>>

\* lines 136-151: what one tool call raises ("" for nothing) and its result
Dispatch(tool_call) ==
    LET func_name == tool_call.name
        func_args == loads_arguments(tool_call.arguments)
    IN  IF func_args.err # "" THEN [raised |-> func_args.err, result |-> ""]
        ELSE IF func_name = "get_weather"
        THEN IF Binds(func_args, "city")
             THEN [raised |-> "", result |-> get_weather(func_args.pairs[1].value)]
             ELSE [raised |-> "TypeError", result |-> ""]
        ELSE IF func_name = "calculate"
        THEN IF Binds(func_args, "expression")
             THEN [raised |-> "",
                   result |-> calculate("demo05", func_args.pairs[1].value).return]
             ELSE [raised |-> "TypeError", result |-> ""]
        ELSE [raised |-> "", result |-> "unknown function: " \o func_name]

\* the results go back in the opposite order
ToolMessages_reversed(tool_results_) ==
    [k \in 1..Len(tool_results_) |->
        Message("tool", tool_results_[Len(tool_results_) + 1 - k][3], <<>>,
                tool_results_[Len(tool_results_) + 1 - k][1])]

\* lines 161-166: one role="tool" message per entry of tool_results
ToolMessages(tool_results_) ==
    [k \in 1..Len(tool_results_) |->
        Message("tool", tool_results_[k][3], <<>>, tool_results_[k][1])]

InitTools ==
    /\ SearchOff /\ StoreOff /\ AgentOff /\ ChatOff /\ WindowOff
    /\ CalcOff /\ PrepOff
    /\ tool_messages = <<UserMessage>>
    /\ response_message = <<>>
    /\ tool_i = 0
    /\ tool_results = <<>>
    /\ second_request = <<>>
    /\ tools_pc = "first"

\* lines 108-134: the first request is answered, the message of the response
\* is appended
FirstResponse ==
    /\ tools_pc = "first"
    /\ \E m \in FirstResponses(MaxToolCalls) :
          /\ response_message' = m
          /\ tool_messages' = Append(tool_messages, m)
    /\ tools_pc' = "dispatch"
    /\ UNCHANGED <<tool_i, tool_results, second_request>>

\* lines 108-117: the first request raises
FirstRequestRaises ==
    /\ tools_pc = "first"
    /\ tools_pc' = "APIError"
    /\ UNCHANGED <<tool_messages, response_message, tool_i, tool_results, second_request>>

\* line 135: tool_calls is None, the for statement raises
NoToolCalls ==
    /\ tools_pc = "dispatch"
    /\ ~response_message.has_tool_calls
    /\ tools_pc' = "TypeError"
    /\ UNCHANGED <<tool_messages, response_message, tool_i, tool_results, second_request>>

\* lines 135-154: one turn of the loop over the tool calls
DispatchToolCall ==
    /\ tools_pc = "dispatch"
    /\ response_message.has_tool_calls
    /\ tool_i < Len(response_message.tool_calls)
    /\ \E tool_call \in {response_message.tool_calls[tool_i + 1]} :
       \E d \in {Dispatch(tool_call)} :
          IF d.raised # ""
          THEN /\ tools_pc' = d.raised
               /\ UNCHANGED <<tool_i, tool_results>>
          ELSE /\ tool_results' =
                     Append(tool_results, <<tool_call.id, tool_call.name, d.result>>)
               /\ tool_i' = tool_i + 1
               /\ UNCHANGED tools_pc
    /\ UNCHANGED <<tool_messages, response_message, second_request>>

\* lines 161-177: the tool messages are appended and the second request sent
SecondRequest ==
    /\ tools_pc = "dispatch"
    /\ response_message.has_tool_calls
    /\ tool_i = Len(response_message.tool_calls)
    /\ tool_messages' = tool_messages \o ToolMessages(tool_results)
    /\ second_request' = tool_messages'
    /\ tools_pc' = "second"
    /\ UNCHANGED <<response_message, tool_i, tool_results>>

\* lines 173-180: the final answer arrives and is printed
FinalResponse ==
    /\ tools_pc = "second"
    /\ tools_pc' = "done"
    /\ UNCHANGED <<tool_messages, response_message, tool_i, tool_results, second_request>>

\* lines 173-177: the second request raises
SecondRequestRaises ==
    /\ tools_pc = "second"
    /\ tools_pc' = "APIError"
    /\ UNCHANGED <<tool_messages, response_message, tool_i, tool_results, second_request>>

NextTools ==
    \/ FirstResponse /\ UNCHANGED not_tools
    \/ FirstRequestRaises /\ UNCHANGED not_tools
    \/ NoToolCalls /\ UNCHANGED not_tools
    \/ DispatchToolCall /\ UNCHANGED not_tools
    \/ SecondRequest /\ UNCHANGED not_tools
    \/ FinalResponse /\ UNCHANGED not_tools
    \/ SecondRequestRaises /\ UNCHANGED not_tools

SpecTools == InitTools /\ [][NextTools]_vars

\* ---- 02_prepare_data.py ----------------------------------------------------
not_prep ==
    <<search_vars, log, threads, store_vars, agent_vars, chat_vars, window_vars,
      tools_vars, calc_vars>>

\* A text is a sequence of runs [ch, n]: n times the character ch, no two
\* neighbouring runs of the same character.  A missing value (NaN) is Missing.
Run(ch, n) == [ch |-> ch, n |-> n]

Missing == <<Run("NaN", 0)>>

RECURSIVE StrLen(_)
StrLen(s) == IF s = <<>> THEN 0 ELSE s[1].n + StrLen(Tail(s))

\* s + t
Concat(s, t) ==
    IF s = <<>> THEN t
    ELSE IF t = <<>> THEN s
    ELSE IF s[Len(s)].ch = t[1].ch
    THEN SubSeq(s, 1, Len(s) - 1) \o <<Run(t[1].ch, s[Len(s)].n + t[1].n)>> \o Tail(t)
    ELSE s \o t

\* s.strip(): the whitespace at both ends is removed; the space is the
\* whitespace of the model's texts
strip(s) ==
    LET l == IF s # <<>> /\ s[1].ch = " " THEN Tail(s) ELSE s IN
    IF l # <<>> /\ l[Len(l)].ch = " " THEN SubSeq(l, 1, Len(l) - 1) ELSE l

\* s[:n]
RECURSIVE Slice(_, _)
Slice(s, n) ==
    IF s = <<>> \/ n <= 0 THEN <<>>
    ELSE IF s[1].n >= n THEN <<Run(s[1].ch, n)>>
    ELSE <<s[1]>> \o Slice(Tail(s), n - s[1].n)

\* the values of the Summary and Text columns in the model's files
Padded == <<Run(" ", 1), Run("s", 3), Run(" ", 2)>>

Blank == <<Run(" ", 2)>>

Short == <<Run("t", 4)>>

Long == <<Run("t", MAX_CHARS + 1)>>

\* Summary and Text of a review: both usable, a text beyond MAX_CHARS, and
\* one of the two missing or blank
TextPairs ==
    {<<Padded, Short>>, <<Padded, Long>>, <<Missing, Short>>, <<Blank, Short>>,
     <<Padded, Missing>>, <<Padded, Blank>>}

\* the (ProductId, UserId) pairs of the model's reviews
IdPairs == {<<1, 1>>, <<1, 2>>, <<2, 1>>}

Review(id, pair, text) ==
    [Id |-> id, ProductId |-> pair[1], UserId |-> pair[2], Score |-> 1 + (id % 5),
     Summary |-> text[1], Text |-> text[2]]

\* the files of n reviews, Id counting from 1 as in Reviews.csv
RECURSIVE ReviewLists(_)
ReviewLists(n) ==
    IF n = 0 THEN {<<>>}
    ELSE {Append(l, Review(n, p, t)) :
            l \in ReviewLists(n - 1), p \in IdPairs, t \in TextPairs}

\* n more reviews after a list, each of its own user
Filler(list, n) ==
    list \o [k \in 1..n |->
                Review(Len(list) + k, <<3, k>>, <<Padded, Short>>)]

\* lists that reach and pass SAMPLE_SIZE surviving rows
LongLists ==
    {Filler(l, n) :
        l \in {<<>>,
               <<Review(1, <<1, 1>>, <<Padded, Long>>)>>,
               <<Review(1, <<1, 1>>, <<Blank, Short>>)>>,
               <<Review(1, <<1, 1>>, <<Padded, Short>>),
                 Review(2, <<1, 1>>, <<Padded, Missing>>)>>},
        n \in {SAMPLE_SIZE - 1, SAMPLE_SIZE, SAMPLE_SIZE + 1}}

NoReviews == [has_columns |-> FALSE, rows |-> <<>>]

\* the files at INPUT_PATH: every list of up to max_reviews reviews, the
\* long lists, and a file without the columns
ReviewFiles(max_reviews) ==
    {[has_columns |-> TRUE, rows |-> l] :
        l \in UNION {ReviewLists(n) : n \in 0..max_reviews} \cup LongLists}
    \cup {NoReviews}

\* read_csv's dtype of a text column: object when the file has no row or
\* the column has a value, float64 when every value is missing
IsStringColumn(rows, column) ==
    \/ rows = <<>>
    \/ \E i \in 1..Len(rows) : rows[i][column] # Missing

\* the positions of a frame whose rows pass the test, in order
Positions(n) == [i \in 1..n |-> i]

\* the first row of each pair is kept
drop_duplicates_keep_first(frame) ==
    LET key == [i \in 1..Len(frame) |-> <<frame[i].ProductId, frame[i].UserId>>]
        Kept(i) == \A j \in 1..(i - 1) : key[j] # key[i]
        kept == SelectSeq(Positions(Len(frame)), Kept)
    IN  [k \in 1..Len(kept) |-> frame[kept[k]]]

\* line 108: drop_duplicates(subset=["ProductId", "UserId"], keep="last")
drop_duplicates(frame) ==
    LET key == [i \in 1..Len(frame) |-> <<frame[i].ProductId, frame[i].UserId>>]
        Kept(i) == \A j \in (i + 1)..Len(frame) : key[j] # key[i]
        kept == SelectSeq(Positions(Len(frame)), Kept)
    IN  [k \in 1..Len(kept) |-> frame[kept[k]]]

\* line 115
dropna(frame) ==
    SelectSeq(frame, LAMBDA r : r.Summary # Missing /\ r.Text # Missing)

\* lines 116-117
NotBlank(frame) ==
    SelectSeq(frame, LAMBDA r : strip(r.Summary) # <<>> /\ strip(r.Text) # <<>>)

\* line 125
Content(r) == Concat(Concat(strip(r.Summary), <<Run(".", 1), Run(" ", 1)>>), strip(r.Text))

\* one row more than SAMPLE_SIZE is kept
head_one_more(frame) == SubSeq(frame, 1, Min(SAMPLE_SIZE + 1, Len(frame)))

\* line 138: head(SAMPLE_SIZE)
head(frame) == SubSeq(frame, 1, Min(SAMPLE_SIZE, Len(frame)))

InitPrep ==
    /\ SearchOff /\ StoreOff /\ AgentOff /\ ChatOff /\ WindowOff
    /\ ToolsOff /\ CalcOff
    /\ reviews \in ReviewFiles(MaxReviews)
    /\ prep_df = <<>>
    /\ prep_out = NoFile
    /\ prep_pc = "read"

\* lines 96-98
PrepReadCsv ==
    /\ prep_pc = "read"
    /\ prep_df' = reviews.rows
    /\ prep_pc' = "columns"
    /\ UNCHANGED <<reviews, prep_out>>

\* line 102: a file without one of the six columns raises KeyError
SelectColumns ==
    /\ prep_pc = "columns"
    /\ prep_pc' = IF reviews.has_columns THEN "dedup" ELSE "KeyError"
    /\ UNCHANGED <<reviews, prep_df, prep_out>>

\* lines 107-110
DropDuplicates ==
    /\ prep_pc = "dedup"
    /\ prep_df' = drop_duplicates(prep_df)
    /\ prep_pc' = "filter"
    /\ UNCHANGED <<reviews, prep_out>>

\* lines 114-119: the .str accessor of a column that is not of strings
\* raises AttributeError
FilterEmpty ==
    /\ prep_pc = "filter"
    /\ IF IsStringColumn(reviews.rows, "Summary") /\ IsStringColumn(reviews.rows, "Text")
       THEN /\ prep_df' = NotBlank(dropna(prep_df))
            /\ prep_pc' = "content"
       ELSE /\ prep_df' = dropna(prep_df)
            /\ prep_pc' = "AttributeError"
    /\ UNCHANGED <<reviews, prep_out>>

\* line 125
AddContent ==
    /\ prep_pc = "content"
    /\ prep_df' = [k \in 1..Len(prep_df) |->
                      [Id |-> prep_df[k].Id, ProductId |-> prep_df[k].ProductId,
                       Score |-> prep_df[k].Score, content |-> Content(prep_df[k])]]
    /\ prep_pc' = "truncate"
    /\ UNCHANGED <<reviews, prep_out>>

\* lines 130-134
Truncate ==
    /\ prep_pc = "truncate"
    /\ prep_df' = [k \in 1..Len(prep_df) |->
                      [prep_df[k] EXCEPT !.content = Slice(@, MAX_CHARS)]]
    /\ prep_pc' = "head"
    /\ UNCHANGED <<reviews, prep_out>>

\* lines 138-139
TakeHead ==
    /\ prep_pc = "head"
    /\ prep_df' = head(prep_df)
    /\ prep_pc' = "save"
    /\ UNCHANGED <<reviews, prep_out>>

\* lines 143-163: the distribution is printed, the file written, two rows
\* shown
Save ==
    /\ prep_pc = "save"
    /\ prep_out' = [exists |-> TRUE, has_embedding |-> FALSE, rows |-> prep_df]
    /\ prep_pc' = "done"
    /\ UNCHANGED <<reviews, prep_df>>

NextPrep ==
    \/ PrepReadCsv /\ UNCHANGED not_prep
    \/ SelectColumns /\ UNCHANGED not_prep
    \/ DropDuplicates /\ UNCHANGED not_prep
    \/ FilterEmpty /\ UNCHANGED not_prep
    \/ AddContent /\ UNCHANGED not_prep
    \/ Truncate /\ UNCHANGED not_prep
    \/ TakeHead /\ UNCHANGED not_prep
    \/ Save /\ UNCHANGED not_prep

SpecPrep == InitPrep /\ [][NextPrep]_vars

\* ---- the claims ------------------------------------------------------------
\* a search has returned and its result is in results
Returned == pc = "print"

N == Len(df)

\* the index as Build leaves it
IndexAsBuilt ==
    /\ df = ReadCsv(csv.rows)
    /\ norm_matrix = normalize_matrix(embed_matrix)

\* the index is built: main is past normalize_matrix
Built == pc \in {"ready", "print"} \/ (pc \in {"exit", "error"} /\ norm_matrix # <<>>)

\* the similarity of every row for the arguments of the last call
CallScores ==
    MaskScores(Matmul(norm_matrix, normalize_query(call.query_vec)),
               df, call.score_filter)

\* the rows (by content) in the result
ReturnedRows == {results[p].content : p \in 1..Len(results)}

Matching(f) == {i \in 1..N : df[i].Score = f}

NonIncreasing ==
    \A p \in 1..Len(results), q \in 1..Len(results) :
        p < q => results[p].similarity >= results[q].similarity

\* C1: with a score filter f, every returned record has Score f, also when
\* fewer than k records match.
C1_FilterCorrectness ==
    (Returned /\ call.score_filter # None) =>
        \A p \in 1..Len(results) : results[p].Score = call.score_filter

\* C2: with a score filter f, the result has min(k, number of records of
\* Score f) records.
C2_FilteredCount ==
    (Returned /\ call.score_filter # None) =>
        Len(results) = Min(call.top_k, Cardinality(Matching(call.score_filter)))

\* C3: records of equal similarity appear lower row first, and of a tied
\* group cut by k the lower rows are the ones kept.
C3_TieBreak ==
    Returned =>
        /\ \A p \in 1..Len(results), q \in 1..Len(results) :
              (p < q /\ results[p].similarity = results[q].similarity)
                  => results[p].content < results[q].content
        /\ \A p \in 1..Len(results), i \in 1..N :
              (i \notin ReturnedRows /\ CallScores[i] = results[p].similarity)
                  => results[p].content < i

\* C4, as claimed: the similarities of a result are non-increasing and each
\* lies in [-1.0, 1.0].
C4_SortedInUnitRange ==
    Returned =>
        /\ NonIncreasing
        /\ \A p \in 1..Len(results) :
              -SCALE <= results[p].similarity /\ results[p].similarity <= SCALE

\* C4, amended: the similarities of a result are non-increasing and each lies
\* in [-1.0, 1.0] up to the rounding tolerance.
C4_SortedInRangeTol ==
    Returned =>
        /\ NonIncreasing
        /\ \A p \in 1..Len(results) :
              /\ -SCALE - Tol <= results[p].similarity
              /\ results[p].similarity <= SCALE + Tol

C4_Witness ==
    /\ Returned
    /\ Len(results) >= 2
    /\ results[1].similarity > SCALE
    /\ results[2].similarity < results[1].similarity

RowA5 == CsvRow(5, VecA)
RowB5 == CsvRow(5, VecB)
RowC1 == CsvRow(1, VecC)

ScenarioABC ==
    /\ Returned
    /\ csv.rows = <<RowA5, RowB5, RowC1>>
    /\ call.query_vec = VecA
    /\ call.top_k = 2
    /\ call.score_filter = None

\* C5: without a filter no record left out of the result has a similarity
\* greater than a returned one; A=[1,0], B=[0.9,0.1], C=[0,1] queried with A
\* and k=2 returns A then B.
C5_TopK ==
    /\ (Returned /\ call.score_filter = None) =>
          \A i \in 1..N, p \in 1..Len(results) :
              i \notin ReturnedRows => CallScores[i] <= results[p].similarity
    /\ ScenarioABC =>
          /\ Len(results) = 2
          /\ results[1].content = 1
          /\ results[2].content = 2

C5_Witness ==
    /\ ScenarioABC
    /\ ReturnedRows = {1, 2}
    /\ results[1].similarity > results[2].similarity

\* C6: without a filter the result has exactly min(k, N) distinct records,
\* and a query of the index's dimension raises nothing, also when k > N.
C6_Count ==
    /\ (Returned /\ call.score_filter = None) =>
          /\ Len(results) = Min(call.top_k, N)
          /\ Cardinality(ReturnedRows) = Len(results)
    /\ (pc = "error" /\ call.top_k # 0) =>
          Len(call.query_vec) # Len(norm_matrix[1])

C6_Witness ==
    /\ Returned
    /\ call.score_filter = None
    /\ N >= 2
    /\ call.top_k > N
    /\ Len(results) = N

IsZero(v) == \A i \in 1..Len(v) : v[i] = 0

NearOne(x) == SCALE - Tol <= x /\ x <= SCALE + Tol

SelfQuery(i) ==
    /\ Returned
    /\ call.top_k = 1
    /\ call.score_filter = None
    /\ call.query_vec = norm_matrix[i]

\* C7, as claimed: the query with the normalized vector of any record r, k=1
\* and no filter returns r itself with similarity 1.0 within tolerance.
C7_SelfSimilarityAll ==
    \A i \in 1..N :
        SelfQuery(i) =>
            /\ Len(results) = 1
            /\ results[1].content = i
            /\ NearOne(results[1].similarity)

\* C7, amended: for a record r whose vector is not zero that query returns
\* one record with similarity 1.0 within tolerance, and it is r itself when
\* no other record scores at least as high against r's vector; for a zero
\* vector the similarity returned is 0.
C7_SelfSimilarity ==
    \A i \in 1..N :
        SelfQuery(i) =>
            /\ Len(results) = 1
            /\ IF IsZero(embed_matrix[i])
               THEN results[1].similarity = 0
               ELSE /\ NearOne(results[1].similarity)
                    /\ (\A j \in 1..N : j # i => CallScores[j] < CallScores[i])
                          => results[1].content = i

C7_Witness ==
    \E i \in 1..N :
        /\ SelfQuery(i)
        /\ N >= 3
        /\ ~IsZero(embed_matrix[i])
        /\ results[1].content = i
        /\ \A j \in 1..N : j # i => CallScores[j] < CallScores[i]

WrongDimension ==
    /\ call.top_k # 0
    /\ Len(call.query_vec) # Len(norm_matrix[1])

EmptyCsv == csv.exists /\ csv.has_embedding /\ Len(csv.rows) = 0

Inconsistent(rows) ==
    \E i, j \in 1..Len(rows) : Len(rows[i].embedding) # Len(rows[j].embedding)

Consistent(rows) ==
    /\ Len(rows) >= 1
    /\ ~Inconsistent(rows)

LoadFailed == pc = "error" /\ call.top_k = 0

NoIndex == df = <<>> /\ embed_matrix = <<>> /\ norm_matrix = <<>>

C11_Idempotence ==
    \A i, j \in 1..Len(log) :
        log[i].call = log[j].call => log[i].results = log[j].results

\* some record of the index is masked by the filter of call c
Masks(c) ==
    /\ c.score_filter # None
    /\ \E i \in 1..Len(df) : df[i].Score # c.score_filter

C11_Witness ==
    /\ Len(log) = 3
    /\ log[1].call = log[3].call
    /\ log[1].call.score_filter = None
    /\ Masks(log[2].call)
    /\ Len(log[1].results) = 2
    /\ log[1].results # log[2].results
    /\ log[3].results = log[1].results

\* C12: once the index is built no step changes df or norm_matrix, so after
\* every sequence of searches they are as Build left them
C12_ReadOnly == [][Built => (df' = df /\ norm_matrix' = norm_matrix)]_vars

\* a filtered search has returned a masked record with the -1.0 it was given,
\* and the index is as built
C12_Witness ==
    /\ Returned
    /\ Masks(call)
    /\ \E p \in 1..Len(results) :
          /\ results[p].Score # call.score_filter
          /\ results[p].similarity = -SCALE
    /\ IndexAsBuilt

\* what the call of thread t returns when it runs alone on the index as built
Alone(t) ==
    semantic_search(threads[t].args.query_vec, ReadCsv(csv.rows),
                    normalize_matrix(embed_matrix), threads[t].args.top_k,
                    threads[t].args.score_filter, tie_order)

\* C13: however the steps of the concurrent calls interleave, a call that has
\* returned has the result it has when it runs alone
C13_Interleaving ==
    \A t \in Threads :
        /\ threads[t].at = "returned" =>
              /\ Alone(t).raises = NoError
              /\ threads[t].results = Alone(t).results
        /\ threads[t].at = "raised" => Alone(t).raises # NoError

\* two calls have returned different results, one of them filtered with a
\* masked row, and the first one returned while the other was between its
\* steps C and F
C13_Witness ==
    /\ threads[1].at = "returned"
    /\ threads[2].at = "E"
    /\ Masks(threads[2].args)
    /\ threads[1].args # threads[2].args
    /\ Len(threads[1].results) = 2
    /\ threads[1].results = Alone(1).results
    /\ threads[2].scores # Matmul(norm_matrix, threads[2].query_norm)

\* the float32 vector the CSV holds for record i
StoredVector(i) == astype_float32(json_loads(csv.rows[i].embedding))

\* C14: Build keeps the records in the order of the input and leaves the raw
\* vectors alone: row i of the normalised matrix is the normalised vector of
\* record i and the matrix given to normalize_matrix has its values afterwards
C14_BuildKeepsOrder ==
    pc = "ready" =>
        /\ Len(df) = Len(csv.rows)
        /\ Len(norm_matrix) = Len(csv.rows)
        /\ Len(embed_matrix) = Len(csv.rows)
        /\ \A i \in 1..Len(csv.rows) :
              /\ df[i].content = i
              /\ df[i].Score = csv.rows[i].Score
              /\ embed_matrix[i] = StoredVector(i)
              /\ norm_matrix[i] = Unit(StoredVector(i))

\* an index of three records with three different vectors, not all of
\* length one, has been built
C14_Witness ==
    /\ pc = "ready"
    /\ Len(csv.rows) = 3
    /\ \A i, j \in 1..3 : i # j => StoredVector(i) # StoredVector(j)
    /\ \E i \in 1..3 : norm_matrix[i] # embed_matrix[i]
    /\ norm_matrix[3] = Unit(StoredVector(3))

\* C15: a record or a query of norm zero is no error, and its similarities
\* are numbers: 0, or the -1.0 of a row the filter masks, never NaN
ZeroQuery == call.top_k # 0 /\ IsZero(call.query_vec)

RECURSIVE Items(_)
Items(es) ==
    IF es = <<>> THEN <<>>
    ELSE Items(SubSeq(es, 1, Len(es) - 1))
            \o (IF es[Len(es)].kind = "raised" THEN <<>>
                ELSE ResponseData(es[Len(es)].input, es[Len(es)].kind))

\* what load_data makes of the file 03_embed_and_store.py wrote
Reloaded == load_data(out_csv)

RoundTrip ==
    /\ Reloaded.raises = NoError
    /\ Len(Reloaded.df) = Len(texts)
    /\ Len(Reloaded.embed_matrix) = Len(texts)
    /\ \A k \in 1..Len(texts) :
          /\ Reloaded.df[k].content = texts[k]
          /\ Reloaded.df[k].Score = ScoreOf(texts[k])
          /\ Reloaded.embed_matrix[k] = astype_float32(Items(exchanges)[k])

\* C16: what 03_embed_and_store.py writes, load_data reads back: as many
\* records, in the same order, row i of the matrix the float32 value of the
\* vector stored for record i
C16_RoundTrip == out_csv.exists => RoundTrip

\* the round trip of a file of at least one record
RoundTripOfNonEmpty == (out_csv.exists /\ Len(texts) >= 1) => RoundTrip

\* the texts of all requests so far, in the order they were sent
RECURSIVE Sent(_)
Sent(es) ==
    IF es = <<>> THEN <<>>
    ELSE Sent(SubSeq(es, 1, Len(es) - 1)) \o es[Len(es)].input

LoopOver == store_pc \in {"save", "print", "done", "ValueError", "IndexError"}

AllExact == \A e \in 1..Len(exchanges) : exchanges[e].kind = "exact"

\* every text is sent once, in order, in batches of at most BATCH_SIZE
SentOnceInOrder ==
    /\ \A e \in 1..Len(exchanges) :
          /\ Len(exchanges[e].input) >= 1
          /\ Len(exchanges[e].input) <= BATCH_SIZE
    /\ Sent(exchanges) = SubSeq(texts, 1, Len(Sent(exchanges)))
    /\ LoopOver => Sent(exchanges) = texts

\* with one vector per input in every response, entry i of all_embeddings
\* is the embedding of text i
AlignedWhenExact ==
    (LoopOver /\ AllExact) =>
        /\ Len(all_embeddings) = Len(texts)
        /\ \A k \in 1..Len(texts) :
              all_embeddings[k] = json_dumps(Embedding(texts[k]))

\* C18, as claimed: all texts are sent once and in order, exact responses
\* give aligned entries, and after any response with another number of
\* vectors than its batch the run fails at the assignment of the column.
C18_BatchAlignment ==
    /\ SentOnceInOrder
    /\ AlignedWhenExact
    /\ (LoopOver /\ ~AllExact) => (store_pc = "ValueError" /\ ~out_csv.exists)

\* C18, amended: all texts are sent once and in order, exact responses give
\* aligned entries, and the run fails at the assignment of the column when
\* the number of vectors of all responses together differs from N
C18_BatchAlignmentTotal ==
    /\ SentOnceInOrder
    /\ AlignedWhenExact
    /\ (LoopOver /\ Len(all_embeddings) # Len(texts))
          => (store_pc = "ValueError" /\ ~out_csv.exists)
    /\ (LoopOver /\ Len(all_embeddings) = Len(texts)) => store_pc # "ValueError"

\* more texts than one batch holds were sent in two batches, the second
\* response was one vector short and the run failed at the assignment
C18_Witness ==
    /\ Len(texts) > BATCH_SIZE
    /\ Len(exchanges) = 2
    /\ Len(exchanges[1].input) = BATCH_SIZE
    /\ exchanges[1].kind = "exact"
    /\ exchanges[2].kind = "short"
    /\ Sent(exchanges) = texts
    /\ Len(all_embeddings) = Len(texts) - 1
    /\ store_pc = "ValueError"
    /\ ~out_csv.exists

\* C17: tabs of the same running app have different session ids, and no
\* message sent in one tab is in the history injected for another tab
C17_TabIsolation ==
    /\ \A t1, t2 \in Tabs :
          (t1 # t2 /\ tab_state[t1] # "" /\ tab_state[t2] # "")
              => tab_state[t1] # tab_state[t2]
    /\ \A t \in Tabs :
          \A k \in 1..Len(injected[t]) : injected[t][k].tab = t

\* a message of one tab is in the history injected for another tab
MessageLeaks ==
    \E t \in Tabs :
        \E k \in 1..Len(injected[t]) : injected[t][k].tab # t

\* the (user, assistant) messages of the calls ts, in call order
RECURSIVE Pairs(_)
Pairs(ts) ==
    IF ts = <<>> THEN <<>>
    ELSE Pairs(SubSeq(ts, 1, Len(ts) - 1))
            \o <<[role |-> "user", content |-> ts[Len(ts)].user],
                 [role |-> "assistant", content |-> ts[Len(ts)].reply]>>

\* C19: after n calls of chat that returned, messages is the system message
\* and the n (user, assistant) pairs in call order, 1 + 2n messages; the
\* request of call n is the system message, the n-1 pairs before it and the
\* new user message
C19_FullHistory ==
    /\ chat_pc = "idle" =>
          /\ messages = <<SystemMessage>> \o Pairs(turns)
          /\ Len(messages) = 1 + 2 * Len(turns)
    /\ chat_pc = "waiting" =>
          /\ request = (<<SystemMessage>> \o Pairs(turns))
                            \o <<[role |-> "user", content |-> user_input]>>
          /\ Len(request) = 2 * (Len(turns) + 1)

\* the third call is waiting for its reply after two calls with different
\* inputs and replies
C19_Witness ==
    /\ chat_pc = "waiting"
    /\ Len(turns) = 2
    /\ turns[1].user # turns[2].user
    /\ turns[1].reply # turns[2].reply
    /\ Len(request) = 6
    /\ request[2].content = turns[1].user
    /\ request[6].content = user_input

\* the messages of the rounds rs as the window holds them
RECURSIVE WindowPairs(_)
WindowPairs(rs) ==
    IF rs = <<>> THEN <<>>
    ELSE WindowPairs(SubSeq(rs, 1, Len(rs) - 1))
            \o <<[type |-> "human", content |-> rs[Len(rs)].user],
                 [type |-> "ai", content |-> rs[Len(rs)].reply]>>

\* the last min(n, WINDOW_SIZE) of the n rounds rs
LastRounds(rs) == SubSeq(rs, Len(rs) - Min(Len(rs), WINDOW_SIZE) + 1, Len(rs))

\* C20: after every return of chat_with_window the window holds at most
\* WINDOW_SIZE * 2 messages, an even number, Human and AI in turn starting
\* with Human, and they are the last min(n, WINDOW_SIZE) rounds in order
C20_WindowBound ==
    win_pc = "idle" =>
        /\ Len(window_history) <= WINDOW_SIZE * 2
        /\ Len(window_history) % 2 = 0
        /\ \A k \in 1..Len(window_history) :
              window_history[k].type = IF k % 2 = 1 THEN "human" ELSE "ai"
        /\ window_history = WindowPairs(LastRounds(rounds))

\* more rounds than the window holds have returned, no two alike in a row,
\* and the window starts with the round WINDOW_SIZE before the end
C20_Witness ==
    /\ win_pc = "idle"
    /\ Len(rounds) = WINDOW_SIZE + 2
    /\ \A k \in 1..(Len(rounds) - 1) : rounds[k] # rounds[k + 1]
    /\ Len(window_history) = WINDOW_SIZE * 2
    /\ window_history[1].content = rounds[Len(rounds) - WINDOW_SIZE + 1].user

\* the message of the input the pending call was given
CurrentInput == [type |-> "human", content |-> win_input]

\* the contents of the messages of a request
ContentsOf(msgs) == {msgs[m].content : m \in 1..Len(msgs)}

\* C21: the request of turn n is the system message, the messages of the
\* last min(n - 1, WINDOW_SIZE) rounds before it in order, and the current
\* input; a round further back has no message in it, so with WINDOW_SIZE = 2
\* the request of the 4th turn holds nothing of the 1st
C21_WindowForgetting ==
    win_pc = "waiting" =>
        /\ win_request =
              <<WindowSystemMessage>> \o WindowPairs(LastRounds(rounds))
                  \o <<CurrentInput>>
        /\ Len(win_request) <= 2 + 2 * WINDOW_SIZE
        /\ \A k \in 1..(Len(rounds) - WINDOW_SIZE) :
              /\ (\A j \in (k + 1)..Len(rounds) : rounds[j].user # rounds[k].user)
                    /\ win_input # rounds[k].user
                 => rounds[k].user \notin ContentsOf(win_request)
              /\ (\A j \in (k + 1)..Len(rounds) : rounds[j].reply # rounds[k].reply)
                 => rounds[k].reply \notin ContentsOf(win_request)

\* the 4th turn is pending with WINDOW_SIZE = 2, the 1st round said what no
\* later round says, and the request holds rounds 2 and 3 and the input
C21_Witness ==
    /\ win_pc = "waiting"
    /\ WINDOW_SIZE = 2
    /\ Len(rounds) = 3
    /\ rounds[1] = [user |-> "q1", reply |-> "a1"]
    /\ rounds[2] = [user |-> "q2", reply |-> "a2"]
    /\ rounds[3] = rounds[2]
    /\ win_input = "q2"
    /\ Len(win_request) = 6
    /\ "q1" \notin ContentsOf(win_request)
    /\ "a1" \notin ContentsOf(win_request)

\* every character of the expression is a digit, one of + - * / ( ) . or a
\* space
OnlyArithmeticChars ==
    \A k \in 1..Len(expression) :
        expression[k] \in DecimalDigits \cup {"+", "-", "*", "/", "(", ")", ".", " "}

\* C23: a call of calculate returns and never raises; eval is called only on
\* an expression all of whose characters are allowed, and then on that
\* expression; any other expression gets the illegal-character message; an
\* expression whose evaluation raises gets the failure string
C23_Calculate ==
    calc_pc # "call" =>
        /\ calc_pc = "returned"
        /\ evaluated # <<>> => OnlyArithmeticChars /\ evaluated = <<expression>>
        /\ ~OnlyArithmeticChars =>
              evaluated = <<>> /\ calc_return = IllegalMessage(calc_file)
        /\ OnlyArithmeticChars =>
              /\ evaluated = <<expression>>
              /\ calc_return # IllegalMessage(calc_file)
              /\ eval(expression).err # "" =>
                    calc_return = FailureMessage(calc_file, eval(expression).err)

\* a division by zero was evaluated and came back as the failure string
C23_Witness ==
    /\ calc_pc = "returned"
    /\ calc_file = "demo05"
    /\ expression = <<"1", "/", "0">>
    /\ evaluated = <<expression>>
    /\ calc_return = "calculation failed: ZeroDivisionError"

\* the tool calls of the first response
Calls == IF response_message = <<>> THEN <<>> ELSE response_message.tool_calls

\* the second request is the user message, the assistant message with the
\* tool calls, then one tool message per tool call in the order of the calls,
\* with the call's id and the result of the function the call names
SecondRequestAnswersCalls ==
    /\ Len(second_request) = 2 + Len(Calls)
    /\ second_request[1] = UserMessage
    /\ second_request[2] = response_message
    /\ second_request[2].role = "assistant"
    /\ \A k \in 1..Len(Calls) :
          /\ second_request[2 + k].role = "tool"
          /\ second_request[2 + k].tool_call_id = Calls[k].id
          /\ second_request[2 + k].content = Dispatch(Calls[k]).result
          /\ Calls[k].name \notin {"get_weather", "calculate"} =>
                second_request[2 + k].content = "unknown function: " \o Calls[k].name

\* the script ended with an exception while it handled tool call k
AbortedAt(k) ==
    /\ tools_pc \in {"JSONDecodeError", "TypeError"}
    /\ response_message # <<>>
    /\ response_message.has_tool_calls
    /\ tool_i = k - 1

\* C22 as stated: the second request answers the tool calls one by one, and
\* the run never aborts at a tool call that names an unknown function
C22_ToolProtocol ==
    /\ second_request # <<>> => SecondRequestAnswersCalls
    /\ \A k \in 1..Len(Calls) :
          Calls[k].name \notin {"get_weather", "calculate"} => ~AbortedAt(k)

\* the arguments of tool call k are JSON text
ArgumentsParse(k) == loads_arguments(Calls[k].arguments).err = ""

\* C22 amended: the second request, when the run gets to it, answers the tool
\* calls one by one; the run does not abort at a tool call that names an
\* unknown function and whose arguments are JSON text; it aborts at a tool
\* call only if the arguments are not JSON text or do not fit the parameters
\* of get_weather or calculate, and then no second request is sent
C22_ToolProtocolParsed ==
    /\ second_request # <<>> => SecondRequestAnswersCalls
    /\ \A k \in 1..Len(Calls) :
          /\ Calls[k].name \notin {"get_weather", "calculate"} /\ ArgumentsParse(k)
                => ~AbortedAt(k)
          /\ AbortedAt(k) =>
                /\ second_request = <<>>
                /\ \/ ~ArgumentsParse(k)
                   \/ /\ Calls[k].name \in {"get_weather", "calculate"}
                      /\ tools_pc = "TypeError"

\* the second request went out after a weather call and a call of a function
\* that is not in the tool list, and carries the answer to each
C22_Witness ==
    /\ tools_pc = "second"
    /\ Len(Calls) = 2
    /\ Calls[1] = [id |-> "call_a", name |-> "get_weather",
                   arguments |-> WeatherArguments("Beijing")]
    /\ Calls[2] = [id |-> "call_b", name |-> "get_time", arguments |-> <<LB, RB>>]
    /\ Len(second_request) = 4
    /\ second_request[3].tool_call_id = "call_a"
    /\ second_request[3].content = get_weather(<<"Beijing">>)
    /\ second_request[4].tool_call_id = "call_b"
    /\ second_request[4].content = "unknown function: get_time"

\* the rows of the input file and of the written output
InRows == reviews.rows

OutRows == prep_out.rows

\* the (ProductId, UserId) pair of input row i; Id is the row's place in the
\* input
PairOf(i) == <<InRows[i].ProductId, InRows[i].UserId>>

\* no later input row has the pair of input row i
IsLastOfPair(i) == \A j \in (i + 1)..Len(InRows) : PairOf(j) # PairOf(i)

\* every output row is an input row
FromInput ==
    \A k \in 1..Len(OutRows) :
        /\ OutRows[k].Id \in 1..Len(InRows)
        /\ OutRows[k].ProductId = InRows[OutRows[k].Id].ProductId
        /\ OutRows[k].Score = InRows[OutRows[k].Id].Score

\* C24: the written output has no two rows of the same (ProductId, UserId)
\* pair, every output row is the last input row of its pair, and an input row
\* that is not the last of its pair is never output, whatever the empty-text
\* filter does to the last one
C24_Deduplication ==
    prep_out.exists =>
        /\ FromInput
        /\ \A k, l \in 1..Len(OutRows) :
              k # l => PairOf(OutRows[k].Id) # PairOf(OutRows[l].Id)
        /\ \A k \in 1..Len(OutRows) : IsLastOfPair(OutRows[k].Id)
        /\ \A i \in 1..Len(InRows) :
              ~IsLastOfPair(i) => \A k \in 1..Len(OutRows) : OutRows[k].Id # i

\* two reviews of one pair, the first usable, the last without Text: the
\* output has neither
C24_Witness ==
    /\ prep_pc = "done"
    /\ InRows = <<Review(1, <<1, 1>>, <<Padded, Short>>),
                  Review(2, <<1, 1>>, <<Padded, Missing>>)>>
    /\ prep_out.exists
    /\ OutRows = <<>>

\* a text that is missing or has nothing but whitespace
MissingOrBlank(s) == s = Missing \/ \A r \in 1..Len(s) : s[r].ch = " "

\* input row i is the last of its pair and has a Summary and a Text
Survives(i) ==
    /\ IsLastOfPair(i)
    /\ ~MissingOrBlank(InRows[i].Summary)
    /\ ~MissingOrBlank(InRows[i].Text)

\* C25: the written output has at most SAMPLE_SIZE rows; they are the first
\* surviving input rows in input order; every content has at most MAX_CHARS
\* characters; no output row comes from an input row whose Summary or Text is
\* missing or blank
C25_OutputBounds ==
    prep_out.exists =>
        /\ FromInput
        /\ Len(OutRows) <= SAMPLE_SIZE
        /\ \A k \in 1..(Len(OutRows) - 1) : OutRows[k].Id < OutRows[k + 1].Id
        /\ \A k \in 1..Len(OutRows) : Survives(OutRows[k].Id)
        /\ \A i \in 1..Len(InRows) :
              Survives(i) /\ (\A k \in 1..Len(OutRows) : OutRows[k].Id # i)
                 => /\ Len(OutRows) = SAMPLE_SIZE
                    /\ OutRows[Len(OutRows)].Id < i
        /\ \A k \in 1..Len(OutRows) :
              /\ StrLen(OutRows[k].content) <= MAX_CHARS
              /\ ~MissingOrBlank(InRows[OutRows[k].Id].Summary)
              /\ ~MissingOrBlank(InRows[OutRows[k].Id].Text)

\* more than SAMPLE_SIZE reviews survive, the first with a text beyond
\* MAX_CHARS: SAMPLE_SIZE rows are written and the first content is cut
C25_Witness ==
    /\ prep_pc = "done"
    /\ Len(InRows) = SAMPLE_SIZE + 1
    /\ \A i \in 1..Len(InRows) : Survives(i)
    /\ StrLen(InRows[1].Text) > MAX_CHARS
    /\ Len(OutRows) = SAMPLE_SIZE
    /\ StrLen(OutRows[1].content) = MAX_CHARS
    /\ OutRows[SAMPLE_SIZE].Id = SAMPLE_SIZE

====
